---- MODULE Spec2Model ----
(***************************************************************************)
(* A model of the pin-sharing client: the feed screen (Home.tsx), the      *)
(* masonry grid (MasonryGrid.tsx), the pin card (PinCard), the pin         *)
(* creation screen (CreatePin) and the tables of the remote gateway they   *)
(* act on (the SQL migration).                                             *)
(*                                                                         *)
(* Strings are sequences of one-character strings, so that toLowerCase,    *)
(* includes, split, trim and startsWith are computed, not assumed.         *)
(* An optional value (a nullable column, a `?:` field, `File | null`) is a *)
(* sequence of length 0 (absent) or 1 (present).                           *)
(***************************************************************************)
EXTENDS Integers, Sequences, FiniteSets

VARIABLES
    user,          \* useAuth().user: NoUser or a user id
    pins,          \* Home: pins
    filteredPins,  \* Home: filteredPins
    likedPins,     \* Home: likedPins (set of pin ids)
    savedPins,     \* Home: savedPins (set of pin ids)
    loading,       \* Home: loading
    searchQuery,   \* Home: searchQuery
    width,         \* window.innerWidth
    columns,       \* MasonryGrid: columns
    gridMounted,   \* whether Home renders a MasonryGrid
    columnData,    \* MasonryGrid: what distributeColumns returned at the last render
    cards,         \* PinCard instances: pin id -> absent or [col, isLiked, isSaved]
    dbPins,        \* gateway: public.pins, in creation order
    dbLikes,       \* gateway: public.likes, rows [user_id, pin_id]
    dbSaves,       \* gateway: public.saves, rows [user_id, pin_id]
    storage,       \* gateway: objects of the pin-images bucket
    loads,         \* fetchPins calls in flight
    ixLoads,       \* fetchUserInteractions calls in flight
    toggles,       \* PinCard handleLike / handleSave calls in flight
    deletes,       \* PinCard handleDelete calls in flight
    toast,         \* the notification the last step showed, if any
    event,         \* the handler step that ran last
    imageFile,     \* CreatePin: imageFile
    imagePreview,  \* CreatePin: imagePreview
    readers,       \* CreatePin: FileReader reads in flight
    formData,      \* CreatePin: formData
    cLoading,      \* CreatePin: loading
    subs,          \* CreatePin handleSubmit calls in flight
    clock,         \* Date.now()
    route,         \* the screen the router shows
    effects        \* the passive effects of the feed's last commit that have not run yet

homeVars   == <<pins, filteredPins, likedPins, savedPins, loading, searchQuery, effects>>
gridVars   == <<width, columns, gridMounted, columnData, cards>>
dbVars     == <<dbPins, dbLikes, dbSaves, storage>>
flightVars == <<loads, ixLoads, toggles, deletes>>
createVars == <<imageFile, imagePreview, readers, formData, cLoading, subs, clock, route>>
vars == <<user, homeVars, gridVars, dbVars, flightVars, toast, event, createVars>>

(***************************************************************************)
(* Optional values and strings.                                            *)
(***************************************************************************)
None == <<>>
Some(x) == <<x>>
IsSome(o) == Len(o) > 0
Get(o) == o[1]

NoUser == "none"
Users == {"u1"}            \* the accounts that sign in on this client

\* String.prototype.toLowerCase, one character.
LowerChar(c) == IF c = "A" THEN "a" ELSE IF c = "B" THEN "b" ELSE c

\* String.prototype.toLowerCase.
ToLowerCase(s) == [i \in 1..Len(s) |-> LowerChar(s[i])]

\* String.prototype.includes: q occurs in s at some position.
Includes(s, q) ==
    \E i \in 0..(Len(s) - Len(q)) : \A j \in 1..Len(q) : s[i + j] = q[j]

\* String.prototype.startsWith.
StartsWith(s, p) ==
    /\ Len(s) >= Len(p)
    /\ \A j \in 1..Len(p) : s[j] = p[j]

RECURSIVE SeqSum(_)
SeqSum(s) == IF s = <<>> THEN 0 ELSE Head(s) + SeqSum(Tail(s))

Reverse(s) == [i \in 1..Len(s) |-> s[Len(s) + 1 - i]]

(***************************************************************************)
(* Home: the free-text filter (the effect on [pins, searchQuery]).         *)
(***************************************************************************)
\* The predicate of pins.filter: title, description?, tags?.some, profiles?.username?,
\* profiles?.display_name?, each lower-cased and searched for the lower-cased query.
PinMatchesDropDisplayName(pin, q) ==
    LET lq == ToLowerCase(q) IN
    \/ Includes(ToLowerCase(pin.title), lq)
    \/ IsSome(pin.description) /\ Includes(ToLowerCase(Get(pin.description)), lq)
    \/ IsSome(pin.tags) /\ \E k \in 1..Len(Get(pin.tags)) :
           Includes(ToLowerCase(Get(pin.tags)[k]), lq)
    \/ IsSome(pin.profiles) /\ IsSome(Get(pin.profiles).username)
           /\ Includes(ToLowerCase(Get(Get(pin.profiles).username)), lq)

PinMatches(pin, q) ==
    LET lq == ToLowerCase(q) IN
    \/ Includes(ToLowerCase(pin.title), lq)
    \/ IsSome(pin.description) /\ Includes(ToLowerCase(Get(pin.description)), lq)
    \/ IsSome(pin.tags) /\ \E k \in 1..Len(Get(pin.tags)) :
           Includes(ToLowerCase(Get(pin.tags)[k]), lq)
    \/ IsSome(pin.profiles) /\ IsSome(Get(pin.profiles).username)
           /\ Includes(ToLowerCase(Get(Get(pin.profiles).username)), lq)
    \/ IsSome(pin.profiles) /\ IsSome(Get(pin.profiles).display_name)
           /\ Includes(ToLowerCase(Get(Get(pin.profiles).display_name)), lq)

\* The body of the filter effect: what setFilteredPins receives.
FilterPins(ps, q) ==
    IF q = <<>> THEN ps
    ELSE LET keep(pin) == PinMatches(pin, q) IN SelectSeq(ps, keep)

(***************************************************************************)
(* MasonryGrid.                                                            *)
(***************************************************************************)
InitialColumns == 4

\* updateColumns: the column count for a viewport width.
UpdateColumnsOffByOne(w) ==
    IF w <= 640 THEN 2
    ELSE IF w < 1024 THEN 3
    ELSE IF w < 1280 THEN 4
    ELSE 5

UpdateColumns(w) ==
    IF w < 640 THEN 2
    ELSE IF w < 1024 THEN 3
    ELSE IF w < 1280 THEN 4
    ELSE 5

\* pins.forEach((pin, index) => cols[index % columns].push(pin)), from index
\* `index` (0-based) on, over the columns `cols` built so far.
RECURSIVE DistributeFrom(_, _, _, _)
DistributeFrom(ps, index, ncols, cols) ==
    IF index >= Len(ps) THEN cols
    ELSE LET columnIndex == index % ncols IN
         DistributeFrom(ps, index + 1, ncols,
             [cols EXCEPT ![columnIndex + 1] = Append(@, ps[index + 1])])

DistributeColumnsBalanced(ps, ncols) ==
    [c \in 1..ncols |->
        LET per == (Len(ps) + ncols - 1) \div ncols IN
        SubSeq(ps, (c - 1) * per + 1,
               IF c * per < Len(ps) THEN c * per ELSE Len(ps))]

\* distributeColumns.
DistributeColumns(ps, ncols) ==
    DistributeFrom(ps, 0, ncols, [c \in 1..ncols |-> <<>>])

(***************************************************************************)
(* The gateway's tables (the SQL migration) and the inputs of the model.   *)
(***************************************************************************)
MaxInflight == 2     \* gateway calls in flight at once
MaxListLen == 2      \* rows of public.pins in the filter specification
MaxGridPins == 6     \* rows of public.pins in the grid specification

Outcomes == {"ok", "error", "throw"}   \* resolved, resolved with {error}, rejected

\* public.profiles by user_id: username, display_name (nullable). u2 has no row.
ProfileTable(uid) ==
    IF uid = "u1" THEN Some([username |-> Some(<<"A", "b">>), display_name |-> None])
    ELSE IF uid = "u3" THEN Some([username |-> Some(<<"b">>), display_name |-> Some(<<"B", "a">>)])
    ELSE None

\* A row of public.pins.
PinRow(id, uid, title, description, tags) ==
    [id |-> id, user_id |-> uid, title |-> title, description |-> description,
     image_url |-> <<"catalogue", id>>, tags |-> tags]

\* The rows the feed specification starts from.
FeedDb ==
    << PinRow(1, "u1", <<"A", "b">>, None, Some(<< <<"a">> >>)),
       PinRow(2, "u2", <<"b">>, Some(<<"B">>), None) >>

\* The row contents the filter specification draws public.pins from.
FilterRowContents ==
    LET title == <<"a", "B">>
        description == Some(<<"b", "A">>)
        tags == Some(<< <<"B">>, <<"a", "a">> >>)
    IN  { PinRow(0, "u3", <<>>, None, None),
          PinRow(0, "u3", title, None, None),
          PinRow(0, "u3", <<>>, description, None),
          PinRow(0, "u3", <<>>, None, Some(<<>>)),
          PinRow(0, "u3", <<>>, None, tags),
          PinRow(0, "u1", <<>>, None, None),
          PinRow(0, "u1", title, description, tags) }

FilterDbs ==
    UNION { { [i \in 1..n |-> [rows[i] EXCEPT !.id = i, !.image_url = <<"catalogue", i>>]] :
                rows \in [1..n -> FilterRowContents] } : n \in 0..MaxListLen }

Queries == {<<>>, <<"a">>, <<"A">>, <<"b">>, <<"a", "b">>, <<"B", "A">>, <<"a", "a">>}

\* public.pins of the grid specification: n rows of one owner without a profile.
GridDbs ==
    { [i \in 1..n |-> PinRow(i, "u2", <<"a">>, None, None)] : n \in 0..MaxGridPins }

Widths == {0, 639, 640, 1023, 1024, 1279, 1280, 1920}

RowIds(rows) == {rows[i].id : i \in 1..Len(rows)}

\* select pin_id from likes/saves where user_id = uid
PinIdsOf(table, uid) == {table[i].pin_id : i \in {j \in 1..Len(table) : table[j].user_id = uid}}

HasRow(table, uid, pid) ==
    \E i \in 1..Len(table) : table[i].user_id = uid /\ table[i].pin_id = pid

RowCount(table, uid, pid) ==
    Cardinality({i \in 1..Len(table) : table[i].user_id = uid /\ table[i].pin_id = pid})

\* The requests a pending effect on [user] is about to issue for session u.
Owed(u) == IF u # NoUser THEN 2 ELSE 1

\* The feed's handler calls suspended at an await, and those a pending effect on
\* [user] is about to start.
InFlight ==
    Len(loads) + Len(ixLoads) + Len(toggles) + Len(deletes)
        + (IF "user" \in effects THEN Owed(user) ELSE 0)

\* The calls in flight of a component instance that unmounts: they run on, and
\* their setState calls no longer change anything.
Dead(calls) == [i \in 1..Len(calls) |-> [calls[i] EXCEPT !.live = FALSE]]
DeadToggles(tg) == [i \in 1..Len(tg) |-> [tg[i] EXCEPT !.live = FALSE, !.home = FALSE]]

RemoveAt(s, i) == SubSeq(s, 1, i - 1) \o SubSeq(s, i + 1, Len(s))

(***************************************************************************)
(* Rendering: what React commits after a handler step changed Home state.  *)
(***************************************************************************)
NoToast == [title |-> "", description |-> ""]
Toast(t, d) == [title |-> t, description |-> d]
Event(type, pin, uid, outcome) ==
    [type |-> type, pin |-> pin, uid |-> uid, outcome |-> outcome, file |-> <<>>,
     live |-> TRUE]
FileEvent(type, uid, outcome, file) ==
    [type |-> type, pin |-> 0, uid |-> uid, outcome |-> outcome, file |-> <<file>>,
     live |-> TRUE]
\* The step of a handler call past an await: live while the component that made
\* the call is mounted.
EventOf(call, type, pin, uid, outcome) ==
    [Event(type, pin, uid, outcome) EXCEPT !.live = call.live]

\* The column (0-based) distributeColumns put pin `id` in.
ColumnOf(cd, id) ==
    CHOOSE c \in 0..(Len(cd) - 1) : \E k \in 1..Len(cd[c + 1]) : cd[c + 1][k].id = id

RenderedIds(cd) == UNION { RowIds(cd[c]) : c \in 1..Len(cd) }

\* The PinCard instances after a commit: an instance lives on while its pin stays
\* in the same column (key={columnIndex}, key={pin.id}); a new instance takes
\* useState(liked), useState(saved) from its props.
CardsAfter(old, cd, liked, saved) ==
    [id \in RenderedIds(cd) |->
        IF id \in DOMAIN old /\ old[id].col = ColumnOf(cd, id) THEN old[id]
        ELSE [col |-> ColumnOf(cd, id), isLiked |-> id \in liked, isSaved |-> id \in saved]]

\* A call in flight whose PinCard instance is gone can no longer set its state.
Orphaned(tg, old, new) ==
    [i \in 1..Len(tg) |->
        [tg[i] EXCEPT !.live = @ /\ tg[i].pin \in DOMAIN new /\ tg[i].pin \in DOMAIN old
                                 /\ new[tg[i].pin].col = old[tg[i].pin].col]]

\* A fetchPins call at its first await: the pin-list request is out.
NewLoad == [stage |-> "list", data |-> <<>>, prof |-> <<>>, live |-> TRUE]

\* A fetchUserInteractions call at its first await: the likes request is out,
\* for the rows of `uid`, under the session `auth` the client holds.
NewIxLoad(uid, auth) == [stage |-> "likes", uid |-> uid, auth |-> auth, live |-> TRUE]

\* The commit of a handler step on the feed. `set` names what the step set:
\* "user" (the session), "filter" (pins or searchQuery), "state" (any other
\* state); with nothing set React renders nothing. Before it renders, React runs
\* the passive effects the last commit left pending, with the values of that
\* commit: the effect on [user] starts fetchPins and fetchUserInteractions, the
\* effect on [pins, searchQuery] calls setFilteredPins, and MasonryGrid's mount
\* effect calls updateColumns. Then Home renders: MasonryGrid if there is a
\* filtered pin, a new MasonryGrid with useState(4), its columns and PinCards.
\* The effects of this commit are left pending. `cols`, `cds`, `ld`, `ix` and
\* `tg` are columns, cards, loads, ixLoads and toggles as the step leaves them.
Commit(set, cols, cds, ld, ix, tg) ==
    IF set = {}
    THEN /\ columns' = cols
         /\ cards' = cds
         /\ loads' = ld
         /\ ixLoads' = ix
         /\ toggles' = tg
         /\ UNCHANGED <<filteredPins, gridMounted, columnData, effects>>
    ELSE /\ filteredPins' = IF "filter" \in effects THEN FilterPins(pins, searchQuery)
                            ELSE filteredPins
         /\ loads' = IF "user" \in effects THEN Append(ld, NewLoad) ELSE ld
         /\ ixLoads' = IF "user" \in effects /\ user # NoUser
                        THEN Append(ix, NewIxLoad(user, user')) ELSE ix
         /\ gridMounted' = (~loading' /\ filteredPins' # <<>>)
         /\ columns' = IF ~gridMounted' \/ ~gridMounted THEN InitialColumns
                       ELSE IF "grid" \in effects THEN UpdateColumns(width')
                       ELSE cols
         /\ columnData' = IF gridMounted' THEN DistributeColumns(filteredPins', columns')
                          ELSE <<>>
         /\ cards' = CardsAfter(cds, columnData', likedPins', savedPins')
         /\ toggles' = Orphaned(tg, cds, cards')
         /\ effects' = (set \cap {"user", "filter"})
                           \cup (IF gridMounted' /\ ~gridMounted THEN {"grid"} ELSE {})

(***************************************************************************)
(* Home: the mount effect, fetchPins, fetchUserInteractions.               *)
(***************************************************************************)
\* The effects the last commit left pending run, and React commits what they
\* set.
FlushEffects ==
    /\ effects # {}
    /\ event' = Event("effects", 0, user, "ok")
    /\ toast' = NoToast
    /\ UNCHANGED <<user, pins, likedPins, savedPins, loading, searchQuery, width>>
    /\ Commit({"state"}, columns, cards, loads, ixLoads, toggles)
    /\ UNCHANGED <<dbVars, deletes, createVars>>

\* The session changes (sign-in, sign-out, another account): Home renders with
\* the new user, and its effect on [user] is due again. On another screen
\* useAuth's user changes and no effect depends on it.
SessionChange(u) ==
    /\ route # "index"
    /\ u # user
    /\ user' = u
    /\ event' = Event("session", 0, u, "ok")
    /\ toast' = NoToast
    /\ IF route = "home"
       THEN /\ InFlight + Owed(u) <= MaxInflight
            /\ UNCHANGED <<pins, likedPins, savedPins, loading, searchQuery, width>>
            /\ Commit({"user"}, columns, cards, loads, ixLoads, toggles)
       ELSE UNCHANGED <<homeVars, gridVars, width, loads, ixLoads, toggles>>
    /\ UNCHANGED <<dbVars, deletes, createVars>>

\* fetchPins without its finally block.
FetchPinsFailedStillLoading(i, type, pin) ==
    /\ toast' = Toast("Error", "Failed to load pins")
    /\ event' = EventOf(loads[i], type, pin, user, "failed")
    /\ loads' = RemoveAt(loads, i)
    /\ UNCHANGED <<user, homeVars, gridVars, ixLoads, toggles>>
    /\ UNCHANGED <<dbVars, deletes, createVars>>

FetchPinsFailed(i, type, pin) ==
    /\ toast' = Toast("Error", "Failed to load pins")
    /\ event' = EventOf(loads[i], type, pin, user, "failed")
    /\ IF loads[i].live
       THEN /\ loading' = FALSE
            /\ UNCHANGED <<user, pins, likedPins, savedPins, searchQuery, width>>
            /\ Commit(IF loading THEN {"state"} ELSE {}, columns, cards,
                      RemoveAt(loads, i), ixLoads, toggles)
       ELSE /\ loads' = RemoveAt(loads, i)
            /\ UNCHANGED <<user, homeVars, gridVars, ixLoads, toggles>>
    /\ UNCHANGED <<dbVars, deletes, createVars>>

\* fetchPins past Promise.all: setPins(pinsWithProfiles), then finally.
FetchPinsDone(i, withProfiles, type, pin) ==
    /\ event' = EventOf(loads[i], type, pin, user, "loaded")
    /\ toast' = NoToast
    /\ IF loads[i].live
       THEN /\ pins' = withProfiles
            /\ loading' = FALSE
            /\ UNCHANGED <<user, likedPins, savedPins, searchQuery, width>>
            /\ Commit({"filter"}, columns, cards, RemoveAt(loads, i), ixLoads, toggles)
       ELSE /\ loads' = RemoveAt(loads, i)
            /\ UNCHANGED <<user, homeVars, gridVars, ixLoads, toggles>>
    /\ UNCHANGED <<dbVars, deletes, createVars>>

\* from('pins').select('*').order('created_at', {ascending: false})
SelectPins == Reverse(dbPins)

\* The pin-list request of load i answers.
PinsListResponse(i, outcome) ==
    /\ i \in 1..Len(loads)
    /\ loads[i].stage = "list"
    /\ IF outcome # "ok" THEN FetchPinsFailed(i, "pinsList", 0)
       ELSE IF SelectPins = <<>> THEN FetchPinsDone(i, <<>>, "pinsList", 0)
       ELSE /\ loads' = [loads EXCEPT ![i] =
                  [stage |-> "profiles", data |-> SelectPins,
                   prof |-> [k \in 1..Len(SelectPins) |-> None],
                   live |-> loads[i].live]]
            /\ event' = EventOf(loads[i], "pinsList", 0, user, "ok")
            /\ UNCHANGED <<user, homeVars, gridVars, dbVars, ixLoads, toggles, deletes, createVars>>
            /\ toast' = NoToast

\* The pin of a load with the profile its lookup returned.
WithProfile(row, prof) ==
    [id |-> row.id, user_id |-> row.user_id, title |-> row.title,
     description |-> row.description, image_url |-> row.image_url,
     tags |-> row.tags, profiles |-> prof]

\* The lookups' results taken in completion order, as from a queue.
ProfileResponseCompletionOrder(i, k, outcome) ==
    /\ i \in 1..Len(loads)
    /\ loads[i].stage = "profiles"
    /\ k \in 1..Len(loads[i].data)
    /\ ~IsSome(loads[i].prof[k])
    /\ LET ld == loads[i]
           profile == IF outcome = "ok" THEN ProfileTable(ld.data[k].user_id) ELSE None
           slot == CHOOSE m \in 1..Len(ld.prof) :
                       ~IsSome(ld.prof[m]) /\ \A n \in 1..(m - 1) : IsSome(ld.prof[n])
           prof == [ld.prof EXCEPT ![slot] = Some(profile)]
       IN IF outcome = "throw" THEN FetchPinsFailed(i, "profile", ld.data[k].id)
          ELSE IF \A j \in 1..Len(prof) : IsSome(prof[j])
          THEN FetchPinsDone(i, [j \in 1..Len(ld.data) |->
                                    WithProfile(ld.data[j], Get(prof[j]))],
                             "profile", ld.data[k].id)
          ELSE /\ loads' = [loads EXCEPT ![i].prof = prof]
               /\ event' = EventOf(ld, "profile", ld.data[k].id, user, "ok")
               /\ UNCHANGED <<user, homeVars, gridVars, dbVars, ixLoads, toggles,
                              deletes, createVars>>
               /\ toast' = NoToast

\* The profile lookup of pin k of load i answers: maybeSingle()'s data is the row
\* or null, and null with an error; a rejected lookup rejects Promise.all.
ProfileResponse(i, k, outcome) ==
    /\ i \in 1..Len(loads)
    /\ loads[i].stage = "profiles"
    /\ k \in 1..Len(loads[i].data)
    /\ ~IsSome(loads[i].prof[k])
    /\ LET ld == loads[i]
           profile == IF outcome = "ok" THEN ProfileTable(ld.data[k].user_id) ELSE None
           prof == [ld.prof EXCEPT ![k] = Some(profile)]
       IN IF outcome = "throw" THEN FetchPinsFailed(i, "profile", ld.data[k].id)
          ELSE IF \A j \in 1..Len(prof) : IsSome(prof[j])
          THEN FetchPinsDone(i, [j \in 1..Len(ld.data) |->
                                    WithProfile(ld.data[j], Get(prof[j]))],
                             "profile", ld.data[k].id)
          ELSE /\ loads' = [loads EXCEPT ![i].prof = prof]
               /\ event' = EventOf(ld, "profile", ld.data[k].id, user, "ok")
               /\ UNCHANGED <<user, homeVars, gridVars, dbVars, ixLoads, toggles,
                              deletes, createVars>>
               /\ toast' = NoToast

\* Navbar's search form submitted: Home.handleSearch, setSearchQuery(query).
HandleSearch(q) ==
    /\ route = "home"
    /\ q # searchQuery
    /\ searchQuery' = q
    /\ event' = Event("search", 0, user, "ok")
    /\ UNCHANGED <<user, pins, likedPins, savedPins, loading, width>>
    /\ toast' = NoToast
    /\ Commit({"filter"}, columns, cards, loads, ixLoads, toggles)
    /\ UNCHANGED <<dbVars, deletes, createVars>>

\* A resize event: updateColumns, if a MasonryGrid's mount effect has run and
\* added the listener.
Resize(w) ==
    /\ w # width
    /\ width' = w
    /\ event' = Event("resize", 0, user, "ok")
    /\ UNCHANGED <<user, pins, likedPins, savedPins, loading, searchQuery>>
    /\ toast' = NoToast
    /\ LET listening == gridMounted /\ "grid" \notin effects
           cols == IF listening THEN UpdateColumns(w) ELSE columns
       IN Commit(IF cols # columns THEN {"state"} ELSE {}, cols, cards, loads, ixLoads,
                 toggles)
    /\ UNCHANGED <<dbVars, deletes, createVars>>

\* policy "Users can view their own saves": USING (auth.uid() = user_id)
ViewableSaves(auth) == SelectSeq(dbSaves, LAMBDA row : row.user_id = auth)

\* The likes (saves) request of call i answers: setLikedPins / setSavedPins(new
\* Set(rows.map(r => r.pin_id))), if (rows); then the saves request, or the end.
\* Every row of likes is viewable; the saves request sees the rows of the
\* session it went out under, which is the session at the likes answer.
InteractionsResponse(i, outcome) ==
    /\ i \in 1..Len(ixLoads)
    /\ LET ix == ixLoads[i]
           likesStage == ix.stage = "likes"
           table == IF likesStage THEN dbLikes ELSE ViewableSaves(ix.auth)
           ids == PinIdsOf(table, ix.uid)
           after == IF likesStage /\ outcome # "throw"
                    THEN [ixLoads EXCEPT ![i].stage = "saves", ![i].auth = user]
                    ELSE RemoveAt(ixLoads, i)
       IN /\ event' = EventOf(ix, ix.stage, 0, ix.uid, outcome)
          /\ IF ix.live
             THEN /\ likedPins' = IF likesStage /\ outcome = "ok" THEN ids ELSE likedPins
                  /\ savedPins' = IF ~likesStage /\ outcome = "ok" THEN ids ELSE savedPins
                  /\ UNCHANGED <<user, pins, loading, searchQuery, width>>
                  /\ Commit(IF outcome = "ok" THEN {"state"} ELSE {}, columns, cards,
                            loads, after, toggles)
             ELSE /\ ixLoads' = after
                  /\ UNCHANGED <<user, homeVars, gridVars, loads, toggles>>
    /\ toast' = NoToast
    /\ UNCHANGED <<dbVars, deletes, createVars>>

(***************************************************************************)
(* PinCard: handleLike, handleSave, handleDelete, and Home's callbacks.    *)
(***************************************************************************)
\* The pin a mounted card renders.
PinOfCard(id) == CHOOSE pin \in {filteredPins[k] : k \in 1..Len(filteredPins)} : pin.id = id

\* handleLike / handleSave up to the await: `if (!user) return`, then the delete
\* request if the local flag is set, the insert request otherwise.
ClickToggleNoGuard(id, kind) ==
    /\ route = "home"
    /\ id \in DOMAIN cards
    /\ InFlight < MaxInflight
    /\ toggles' = Append(toggles,
          [pin |-> id, kind |-> kind, uid |-> user, live |-> TRUE, home |-> TRUE,
           was |-> IF kind = "like" THEN cards[id].isLiked ELSE cards[id].isSaved])
    /\ event' = Event(kind, id, user, "requested")
    /\ UNCHANGED <<user, homeVars, gridVars, dbVars, loads, ixLoads, deletes,
                   createVars>>
    /\ toast' = NoToast

\* handleLike / handleSave always requesting the insert.
ClickToggleAlwaysInsert(id, kind) ==
    /\ route = "home"
    /\ id \in DOMAIN cards
    /\ InFlight < MaxInflight
    /\ IF user = NoUser
       THEN /\ event' = Event(kind, id, user, "ignored")
            /\ UNCHANGED toggles
       ELSE /\ toggles' = Append(toggles,
                  [pin |-> id, kind |-> kind, uid |-> user, live |-> TRUE, home |-> TRUE, was |-> FALSE])
            /\ event' = Event(kind, id, user, "requested")
    /\ UNCHANGED <<user, homeVars, gridVars, dbVars, loads, ixLoads, deletes,
                   createVars>>
    /\ toast' = NoToast

ClickToggle(id, kind) ==
    /\ route = "home"
    /\ id \in DOMAIN cards
    /\ InFlight < MaxInflight
    /\ IF user = NoUser
       THEN /\ event' = Event(kind, id, user, "ignored")
            /\ UNCHANGED toggles
       ELSE /\ toggles' = Append(toggles,
                  [pin |-> id, kind |-> kind, uid |-> user, live |-> TRUE, home |-> TRUE,
                   was |-> IF kind = "like" THEN cards[id].isLiked ELSE cards[id].isSaved])
            /\ event' = Event(kind, id, user, "requested")
    /\ UNCHANGED <<user, homeVars, gridVars, dbVars, loads, ixLoads, deletes,
                   createVars>>
    /\ toast' = NoToast

\* insert into likes/saves: UNIQUE(user_id, pin_id), pin_id REFERENCES pins(id).
InsertRowNoUnique(table, uid, pid) ==
    IF pid \in RowIds(dbPins)
    THEN [ok |-> TRUE, table |-> Append(table, [user_id |-> uid, pin_id |-> pid])]
    ELSE [ok |-> FALSE, table |-> table]

InsertRow(table, uid, pid) ==
    IF pid \in RowIds(dbPins) /\ ~HasRow(table, uid, pid)
    THEN [ok |-> TRUE, table |-> Append(table, [user_id |-> uid, pin_id |-> pid])]
    ELSE [ok |-> FALSE, table |-> table]

\* delete from likes/saves where user_id = uid and pin_id = pid
DeleteRows(table, uid, pid) ==
    LET keep(r) == ~(r.user_id = uid /\ r.pin_id = pid) IN SelectSeq(table, keep)

\* Home.handleLike / handleSave: add to or remove from the id set.
HomeToggle(set, id, on) == IF on THEN set \cup {id} ELSE set \ {id}

\* handleLike / handleSave throwing on an error result.
ToggleDoneCheckingError(i, outcome) ==
    /\ i \in 1..Len(toggles)
    /\ LET t == toggles[i]
           isLike == t.kind = "like"
           table == IF isLike THEN dbLikes ELSE dbSaves
           ins == InsertRow(table, t.uid, t.pin)
           after == IF outcome # "ok" THEN table
                    ELSE IF t.was THEN DeleteRows(table, t.uid, t.pin)
                    ELSE ins.table
           newCards == IF outcome = "ok" /\ t.live
                       THEN IF isLike THEN [cards EXCEPT ![t.pin].isLiked = ~t.was]
                            ELSE [cards EXCEPT ![t.pin].isSaved = ~t.was]
                       ELSE cards
       IN /\ outcome = "ok" /\ ~t.was => ins.ok
          /\ dbLikes' = IF isLike THEN after ELSE dbLikes
          /\ dbSaves' = IF isLike THEN dbSaves ELSE after
          /\ likedPins' = IF isLike /\ outcome = "ok" /\ t.home
                          THEN HomeToggle(likedPins, t.pin, ~t.was) ELSE likedPins
          /\ savedPins' = IF ~isLike /\ outcome = "ok" /\ t.home
                          THEN HomeToggle(savedPins, t.pin, ~t.was) ELSE savedPins
          /\ toast' = IF outcome # "ok"
                      THEN Toast("Error", IF isLike THEN "Failed to update like status"
                                          ELSE "Failed to update save status")
                      ELSE NoToast
          /\ event' = EventOf(t, IF isLike THEN "likeDone" ELSE "saveDone", t.pin, t.uid,
                              IF outcome # "ok" THEN outcome
                              ELSE IF t.was THEN "deleted" ELSE "inserted")
          /\ UNCHANGED <<user, pins, loading, searchQuery, width>>
          /\ Commit(IF outcome = "ok" /\ t.home THEN {"state"} ELSE {}, columns, newCards,
                    loads, ixLoads, RemoveAt(toggles, i))
    /\ UNCHANGED <<dbPins, storage, deletes, createVars>>

\* The request of toggle i answers and handleLike / handleSave runs on:
\* setIsLiked(!isLiked), onLike(pin.id, !isLiked); the catch shows a toast.
\* The gateway applies the request only when it answers "ok". setIsLiked acts
\* while the card instance is mounted, Home's callback while Home is.
ToggleDone(i, outcome) ==
    /\ i \in 1..Len(toggles)
    /\ LET t == toggles[i]
           isLike == t.kind = "like"
           table == IF isLike THEN dbLikes ELSE dbSaves
           ins == InsertRow(table, t.uid, t.pin)
           after == IF outcome # "ok" THEN table
                    ELSE IF t.was THEN DeleteRows(table, t.uid, t.pin)
                    ELSE ins.table
           newCards == IF outcome # "throw" /\ t.live
                       THEN IF isLike THEN [cards EXCEPT ![t.pin].isLiked = ~t.was]
                            ELSE [cards EXCEPT ![t.pin].isSaved = ~t.was]
                       ELSE cards
       IN /\ outcome = "ok" /\ ~t.was => ins.ok
          /\ dbLikes' = IF isLike THEN after ELSE dbLikes
          /\ dbSaves' = IF isLike THEN dbSaves ELSE after
          /\ likedPins' = IF isLike /\ outcome # "throw" /\ t.home
                          THEN HomeToggle(likedPins, t.pin, ~t.was) ELSE likedPins
          /\ savedPins' = IF ~isLike /\ outcome # "throw" /\ t.home
                          THEN HomeToggle(savedPins, t.pin, ~t.was) ELSE savedPins
          /\ toast' = IF outcome = "throw"
                      THEN Toast("Error", IF isLike THEN "Failed to update like status"
                                          ELSE "Failed to update save status")
                      ELSE NoToast
          /\ event' = EventOf(t, IF isLike THEN "likeDone" ELSE "saveDone", t.pin, t.uid,
                              IF outcome # "ok" THEN outcome
                              ELSE IF t.was THEN "deleted" ELSE "inserted")
          /\ UNCHANGED <<user, pins, loading, searchQuery, width>>
          /\ Commit(IF outcome # "throw" /\ t.home THEN {"state"} ELSE {}, columns, newCards,
                    loads, ixLoads, RemoveAt(toggles, i))
    /\ UNCHANGED <<dbPins, storage, deletes, createVars>>

\* {isOwner && <DropdownMenuItem onClick={handleDelete}>}: the card offers
\* "Delete Pin" to the pin's owner only.
DeleteOffered(id) == user # NoUser /\ user = PinOfCard(id).user_id

\* handleDelete without its owner guard.
ClickDeleteNoOwnerGuard(id) ==
    /\ route = "home"
    /\ id \in DOMAIN cards
    /\ InFlight < MaxInflight
    /\ deletes' = Append(deletes, [pin |-> id, uid |-> user, live |-> TRUE])
    /\ event' = Event("delete", id, user, "requested")
    /\ UNCHANGED <<user, homeVars, gridVars, dbVars, loads, ixLoads, toggles,
                   createVars>>
    /\ toast' = NoToast

\* handleDelete up to the await: `if (!isOwner) return`, then the delete request.
ClickDelete(id) ==
    /\ route = "home"
    /\ id \in DOMAIN cards
    /\ InFlight < MaxInflight
    /\ LET isOwner == user # NoUser /\ user = PinOfCard(id).user_id
       IN IF ~isOwner
          THEN /\ event' = Event("delete", id, user, "ignored")
               /\ UNCHANGED deletes
          ELSE /\ deletes' = Append(deletes, [pin |-> id, uid |-> user, live |-> TRUE])
               /\ event' = Event("delete", id, user, "requested")
    /\ UNCHANGED <<user, homeVars, gridVars, dbVars, loads, ixLoads, toggles,
                   createVars>>
    /\ toast' = NoToast

\* delete from pins where id = pid, under the policy auth.uid() = user_id;
\* likes and saves of the pin go with it (ON DELETE CASCADE).
DeletePinRows(rows, uid, pid) ==
    LET keep(r) == ~(r.id = pid /\ r.user_id = uid) IN SelectSeq(rows, keep)

CascadePin(table, rows) ==
    LET keep(r) == r.pin_id \in RowIds(rows) IN SelectSeq(table, keep)

\* Home.handleDelete: setPins(prev => prev.filter(pin => pin.id !== pinId)).
HomeHandleDelete(ps, id) == LET keep(pin) == pin.id # id IN SelectSeq(ps, keep)

\* The delete request of call i answers and handleDelete runs on: the awaited
\* result is not inspected, so onDelete and the "Pin deleted" toast follow every
\* resolved request; only a rejected one reaches the catch. onDelete is Home's
\* handleDelete, which acts while Home is mounted.
DeleteDone(i, outcome) ==
    /\ i \in 1..Len(deletes)
    /\ LET d == deletes[i]
           rows == IF outcome = "ok" THEN DeletePinRows(dbPins, d.uid, d.pin) ELSE dbPins
       IN /\ dbPins' = rows
          /\ dbLikes' = CascadePin(dbLikes, rows)
          /\ dbSaves' = CascadePin(dbSaves, rows)
          /\ pins' = IF outcome # "throw" /\ d.live THEN HomeHandleDelete(pins, d.pin)
                     ELSE pins
          /\ toast' = IF outcome # "throw"
                      THEN Toast("Pin deleted", "Your pin has been deleted successfully")
                      ELSE Toast("Error", "Failed to delete pin")
          /\ event' = EventOf(d, "deleteDone", d.pin, d.uid, outcome)
          /\ deletes' = RemoveAt(deletes, i)
          /\ UNCHANGED <<user, likedPins, savedPins, loading, searchQuery, width>>
          /\ Commit(IF outcome # "throw" /\ d.live THEN {"filter"} ELSE {}, columns, cards,
                    loads, ixLoads, toggles)
    /\ UNCHANGED <<storage, createVars>>

(***************************************************************************)
(* The feed: Home mounted on "/".                                          *)
(***************************************************************************)
NoFile == None
EmptyForm == [title |-> <<>>, description |-> <<>>, tags |-> <<>>]

\* CreatePin's state at its first commit: the useState initial values. The
\* variables hold them too while CreatePin is not mounted.
CreateFresh ==
    /\ imageFile = NoFile
    /\ imagePreview = None
    /\ readers = <<>>
    /\ formData = EmptyForm
    /\ cLoading = FALSE

\* Home's state at its first commit: the useState initial values, no MasonryGrid
\* behind the loading branch, and both effects still to run. The variables hold
\* the initial values too while Home is not mounted, with no effect pending.
HomeFresh ==
    /\ pins = <<>> /\ filteredPins = <<>>
    /\ likedPins = {} /\ savedPins = {}
    /\ loading = TRUE
    /\ searchQuery = <<>>
    /\ columns = InitialColumns /\ gridMounted = FALSE /\ columnData = <<>>
    /\ cards = <<>>

\* The application opened on "/" over public.pins = db, with session u and
\* viewport width w: Home after its first commit, nothing requested yet.
HomeInit(db, likes, saves, u, w) ==
    /\ route = "home"
    /\ user = u
    /\ HomeFresh
    /\ effects = {"user", "filter"}
    /\ width = w
    /\ dbPins = db /\ dbLikes = likes /\ dbSaves = saves /\ storage = {}
    /\ loads = <<>> /\ ixLoads = <<>> /\ toggles = <<>> /\ deletes = <<>>
    /\ toast = NoToast
    /\ event = Event("mount", 0, u, "ok")
    /\ CreateFresh
    /\ subs = <<>>
    /\ clock = 0

FeedWidth == 1280

\* public.likes and public.saves when the feed specifications start.
FeedLikes == <<[user_id |-> "u1", pin_id |-> 2]>>
FeedSaves == <<[user_id |-> "u1", pin_id |-> 1]>>

Sessions == Users \cup {NoUser}

FetchStep ==
    \/ \E i \in 1..Len(loads), o \in Outcomes : PinsListResponse(i, o)
    \/ \E i \in 1..Len(loads), o \in Outcomes :
           \E k \in 1..Len(loads[i].data) : ProfileResponse(i, k, o)

(***************************************************************************)
(* CreatePin: the creation screen on "/create".                            *)
(***************************************************************************)
MaxTagLen == 4       \* characters of the tags field
MaxClock == 1        \* milliseconds Date.now() advances
MaxReaders == 1      \* FileReader reads in flight at once
MaxOrphans == 1      \* handleSubmit calls in flight when CreatePin is left

MaxFileSize == 10 * 1024 * 1024

\* A File: name and declared type as strings, size in bytes.
File(name, size, type) == [name |-> name, size |-> size, type |-> type]

ValidFiles ==
    { File(<<"a", ".", "b", ".", "p">>, MaxFileSize, <<"i", "m", "/", "p">>) }

InvalidFiles ==
    { File(<<"c", ".", "p">>, MaxFileSize + 1, <<"i", "m", "/", "p">>),
      File(<<"d", ".", "p">>, 11 * 1024 * 1024, <<"t", "/", "p">>),
      File(<<"h", ".", "i", "m">>, 0, <<"i", "m">>) }

Files == ValidFiles \cup InvalidFiles

\* 'image/', with "im" standing for "image".
ImagePrefix == <<"i", "m", "/">>

TagChars == {"f", " ", ","}
TagInputs == UNION { [1..n -> TagChars] : n \in 0..MaxTagLen }
TagEdits == {<<>>, <<"f", ",", ",", "f">>}
Titles == {<<>>, <<"f">>}
Descriptions == {<<>>, <<"B">>}

\* String.prototype.split on a one-character separator: the pieces between the
\* separators, the empty ones included.
RECURSIVE SplitFrom(_, _, _, _)
SplitFrom(s, sep, piece, pieces) ==
    IF s = <<>> THEN Append(pieces, piece)
    ELSE IF Head(s) = sep THEN SplitFrom(Tail(s), sep, <<>>, Append(pieces, piece))
    ELSE SplitFrom(Tail(s), sep, Append(piece, Head(s)), pieces)

Split(s, sep) == SplitFrom(s, sep, <<>>, <<>>)

\* String.prototype.trim.
RECURSIVE TrimStart(_)
TrimStart(s) == IF s # <<>> /\ Head(s) = " " THEN TrimStart(Tail(s)) ELSE s

RECURSIVE TrimEnd(_)
TrimEnd(s) ==
    IF s # <<>> /\ s[Len(s)] = " " THEN TrimEnd(SubSeq(s, 1, Len(s) - 1)) ELSE s

Trim(s) == TrimEnd(TrimStart(s))

\* formData.tags.split(',').map(tag => tag.trim()).filter(tag => tag.length > 0)
ParseTagsKeepEmpty(t) ==
    LET pieces == Split(t, ",") IN [k \in 1..Len(pieces) |-> Trim(pieces[k])]

ParseTags(t) ==
    LET pieces == Split(t, ",")
        trimmed == [k \in 1..Len(pieces) |-> Trim(pieces[k])]
        nonEmpty(tag) == Len(tag) > 0
    IN SelectSeq(trimmed, nonEmpty)

\* imageFile.name.split('.').pop()
FileExt(name) == LET pieces == Split(name, ".") IN pieces[Len(pieces)]

\* `${user.id}/${Date.now()}.${fileExt}`
FileName(uid, now, ext) == <<uid, now, ext>>

\* storage.from('pin-images').getPublicUrl(fileName)
PublicUrl(fileName) == <<"public", "pin-images", fileName>>

StoredPaths == {o.path : o \in storage}

\* handleImageUpload: the size check, the type check, then setImageFile and the
\* FileReader read. The file input is rendered while there is no preview.
HandleImageUploadClearing(file) ==
    /\ route = "create"
    /\ imagePreview = None
    /\ IF file.size > MaxFileSize
       THEN /\ toast' = Toast("File too large", "Please choose an image smaller than 10MB")
            /\ event' = FileEvent("selectImage", user, "tooLarge", file)
            /\ imageFile' = None
            /\ UNCHANGED readers
       ELSE IF ~StartsWith(file.type, ImagePrefix)
       THEN /\ toast' = Toast("Invalid file type", "Please choose an image file")
            /\ event' = FileEvent("selectImage", user, "notImage", file)
            /\ imageFile' = None
            /\ UNCHANGED readers
       ELSE /\ Len(readers) < MaxReaders
            /\ imageFile' = Some(file)
            /\ readers' = Append(readers, file)
            /\ toast' = NoToast
            /\ event' = FileEvent("selectImage", user, "accepted", file)
    /\ UNCHANGED <<user, homeVars, gridVars, dbVars, flightVars, imagePreview, formData,
                   cLoading, subs, clock, route>>

HandleImageUpload(file) ==
    /\ route = "create"
    /\ imagePreview = None
    /\ IF file.size > MaxFileSize
       THEN /\ toast' = Toast("File too large", "Please choose an image smaller than 10MB")
            /\ event' = FileEvent("selectImage", user, "tooLarge", file)
            /\ UNCHANGED <<imageFile, readers>>
       ELSE IF ~StartsWith(file.type, ImagePrefix)
       THEN /\ toast' = Toast("Invalid file type", "Please choose an image file")
            /\ event' = FileEvent("selectImage", user, "notImage", file)
            /\ UNCHANGED <<imageFile, readers>>
       ELSE /\ Len(readers) < MaxReaders
            /\ imageFile' = Some(file)
            /\ readers' = Append(readers, file)
            /\ toast' = NoToast
            /\ event' = FileEvent("selectImage", user, "accepted", file)
    /\ UNCHANGED <<user, homeVars, gridVars, dbVars, flightVars, imagePreview, formData,
                   cLoading, subs, clock, route>>

\* reader.onload: setImagePreview(the data URL of the file read).
ReaderLoad(i) ==
    /\ route = "create"
    /\ i \in 1..Len(readers)
    /\ imagePreview' = Some(readers[i])
    /\ readers' = RemoveAt(readers, i)
    /\ toast' = NoToast
    /\ event' = FileEvent("readerLoad", user, "ok", readers[i])
    /\ UNCHANGED <<user, homeVars, gridVars, dbVars, flightVars, imageFile, formData,
                   cLoading, subs, clock, route>>

\* removeImage, behind the button shown over the preview.
RemoveImage ==
    /\ route = "create"
    /\ imagePreview # None
    /\ imageFile' = NoFile
    /\ imagePreview' = None
    /\ toast' = NoToast
    /\ event' = Event("removeImage", 0, user, "ok")
    /\ UNCHANGED <<user, homeVars, gridVars, dbVars, flightVars, readers, formData,
                   cLoading, subs, clock, route>>

\* The title input's onChange.
SetTitle(t) ==
    /\ route = "create"
    /\ t # formData.title
    /\ formData' = [formData EXCEPT !.title = t]
    /\ toast' = NoToast
    /\ event' = Event("setTitle", 0, user, "ok")
    /\ UNCHANGED <<user, homeVars, gridVars, dbVars, flightVars, imageFile, imagePreview,
                   readers, cLoading, subs, clock, route>>

\* The description textarea's onChange.
SetDescription(d) ==
    /\ route = "create"
    /\ d # formData.description
    /\ formData' = [formData EXCEPT !.description = d]
    /\ toast' = NoToast
    /\ event' = Event("setDescription", 0, user, "ok")
    /\ UNCHANGED <<user, homeVars, gridVars, dbVars, flightVars, imageFile, imagePreview,
                   readers, cLoading, subs, clock, route>>

\* The tags input's onChange.
SetTags(t) ==
    /\ route = "create"
    /\ t # formData.tags
    /\ formData' = [formData EXCEPT !.tags = t]
    /\ toast' = NoToast
    /\ event' = Event("setTags", 0, user, "ok")
    /\ UNCHANGED <<user, homeVars, gridVars, dbVars, flightVars, imageFile, imagePreview,
                   readers, cLoading, subs, clock, route>>

\* Time passes.
Tick ==
    /\ route = "create"
    /\ clock < MaxClock
    /\ clock' = clock + 1
    /\ toast' = NoToast
    /\ event' = Event("tick", 0, user, "ok")
    /\ UNCHANGED <<user, homeVars, gridVars, dbVars, flightVars, imageFile, imagePreview,
                   readers, formData, cLoading, subs, route>>

\* handleSubmit up to the upload's await, behind the Publish button (disabled
\* without an image, without a title and while loading): `if (!user ||
\* !imageFile) return`, setLoading(true), the upload request.
HandleSubmit ==
    /\ route = "create"
    /\ imageFile # NoFile /\ formData.title # <<>> /\ ~cLoading
    /\ IF user = NoUser
       THEN /\ event' = Event("submit", 0, user, "ignored")
            /\ UNCHANGED <<cLoading, subs>>
       ELSE /\ cLoading' = TRUE
            /\ subs' = Append(subs,
                  [stage |-> "upload", uid |-> user, file |-> Get(imageFile),
                   form |-> formData,
                   fileName |-> FileName(user, clock, FileExt(Get(imageFile).name)),
                   tags |-> <<>>, auth |-> user, live |-> TRUE])
            /\ event' = Event("submit", 0, user, "requested")
    /\ toast' = NoToast
    /\ UNCHANGED <<user, homeVars, gridVars, dbVars, flightVars, imageFile, imagePreview,
                   readers, formData, clock, route>>

\* error.message || "Something went wrong"
ErrorMessage(stage, outcome) ==
    IF outcome = "throw" THEN "Something went wrong"
    ELSE IF stage = "upload" THEN "upload rejected" ELSE "insert rejected"

\* handleSubmit's catch and finally: the error toast, setLoading(false).
SubmitFailedResetForm(i, type, outcome) ==
    /\ subs' = RemoveAt(subs, i)
    /\ toast' = Toast("Error creating pin", ErrorMessage(subs[i].stage, outcome))
    /\ cLoading' = IF subs[i].live THEN FALSE ELSE cLoading
    /\ formData' = EmptyForm
    /\ imageFile' = NoFile
    /\ event' = EventOf(subs[i], type, 0, subs[i].uid, outcome)
    /\ UNCHANGED <<user, homeVars, gridVars, dbVars, flightVars, imagePreview,
                   readers, clock, route>>

SubmitFailed(i, type, outcome) ==
    /\ subs' = RemoveAt(subs, i)
    /\ toast' = Toast("Error creating pin", ErrorMessage(subs[i].stage, outcome))
    /\ cLoading' = IF subs[i].live THEN FALSE ELSE cLoading
    /\ event' = EventOf(subs[i], type, 0, subs[i].uid, outcome)
    /\ UNCHANGED <<user, homeVars, gridVars, dbVars, flightVars, imageFile, imagePreview,
                   readers, formData, clock, route>>

\* The upload answers. The bucket refuses a path it already holds, and the
\* policy "Authenticated users can upload pin images" a request without a
\* session. On success: getPublicUrl, the tags parsed, the insert request, under
\* the session the client holds now.
UploadResponse(i, outcome) ==
    /\ i \in 1..Len(subs)
    /\ subs[i].stage = "upload"
    /\ outcome = "ok" => subs[i].fileName \notin StoredPaths /\ subs[i].auth # NoUser
    /\ IF outcome # "ok" THEN SubmitFailed(i, "uploadDone", outcome)
       ELSE /\ storage' = storage \cup {[path |-> subs[i].fileName, file |-> subs[i].file]}
            /\ subs' = [subs EXCEPT ![i].stage = "insert",
                                    ![i].tags = ParseTags(subs[i].form.tags),
                                    ![i].auth = user]
            /\ toast' = NoToast
            /\ event' = EventOf(subs[i], "uploadDone", 0, subs[i].uid, "ok")
            /\ UNCHANGED <<user, homeVars, gridVars, dbPins, dbLikes, dbSaves, flightVars,
                           imageFile, imagePreview, readers, formData, cLoading, clock,
                           route>>

\* The row handleSubmit inserts; the gateway gives it the next id.
NewPinRow(sub, id) ==
    [id |-> id, user_id |-> sub.uid, title |-> sub.form.title,
     description |-> IF sub.form.description # <<>> THEN Some(sub.form.description) ELSE None,
     image_url |-> PublicUrl(sub.fileName), tags |-> Some(sub.tags)]

\* Home mounts: its state at its first commit, as in HomeFresh.
HomeMounts ==
    /\ pins' = <<>> /\ filteredPins' = <<>>
    /\ likedPins' = {} /\ savedPins' = {}
    /\ loading' = TRUE
    /\ searchQuery' = <<>>
    /\ columns' = InitialColumns /\ gridMounted' = FALSE /\ columnData' = <<>>
    /\ cards' = <<>>

\* CreatePin mounts: its state at its first commit, as in CreateFresh.
CreateMounts ==
    /\ imageFile' = NoFile
    /\ imagePreview' = None
    /\ readers' = <<>>
    /\ formData' = EmptyForm
    /\ cLoading' = FALSE

\* navigate('/') from another screen: the router replaces the screen by Home.
\* CreatePin's state goes, a FileReader read has nobody left to report to, and
\* the handleSubmit calls in `sb` run on without their component; Home starts
\* from its first commit.
GoHome(sb) ==
    /\ route' = "home"
    /\ subs' = Dead(sb)
    /\ CreateMounts
    /\ HomeMounts
    /\ effects' = {"user", "filter"}
    /\ UNCHANGED <<loads, ixLoads, toggles, deletes>>

\* navigate(to) from the feed: the router replaces Home by the screen of `to`.
\* The effects Home's last commit left pending run first, so a pending effect
\* on [user] still starts its calls; Home's state goes and its calls in flight
\* run on without it; on "/create" CreatePin starts from its first commit.
LeaveHome(to) ==
    /\ route' = to
    /\ loads' = Dead(IF "user" \in effects THEN Append(loads, NewLoad) ELSE loads)
    /\ ixLoads' = Dead(IF "user" \in effects /\ user # NoUser
                       THEN Append(ixLoads, NewIxLoad(user, user)) ELSE ixLoads)
    /\ toggles' = DeadToggles(toggles)
    /\ deletes' = Dead(deletes)
    /\ HomeMounts
    /\ effects' = {}
    /\ CreateMounts
    /\ UNCHANGED subs

\* The insert answers; the policy "Users can create their own pins" refuses a
\* row whose user_id is not the request's session. On success: the "Pin
\* created!" toast and navigate('/'), which replaces the screen shown by Home,
\* or changes nothing if "/" is shown already.
InsertResponse(i, outcome) ==
    /\ i \in 1..Len(subs)
    /\ subs[i].stage = "insert"
    /\ outcome = "ok" => subs[i].auth = subs[i].uid
    /\ IF outcome # "ok" THEN SubmitFailed(i, "insertDone", outcome)
       ELSE /\ dbPins' = Append(dbPins, NewPinRow(subs[i], Len(dbPins) + 1))
            /\ toast' = Toast("Pin created!", "Your pin has been shared successfully.")
            /\ event' = EventOf(subs[i], "insertDone", 0, subs[i].uid, "ok")
            /\ IF route # "home"
               THEN GoHome(RemoveAt(subs, i))
               ELSE /\ subs' = RemoveAt(subs, i)
                    /\ UNCHANGED <<homeVars, columns, gridMounted, columnData, cards,
                                   flightVars, imageFile, imagePreview, readers, formData,
                                   cLoading, route>>
            /\ UNCHANGED <<user, width, dbLikes, dbSaves, storage, clock>>

\* The Back button and the Cancel button: navigate('/').
NavigateHome ==
    /\ route = "create"
    /\ InFlight + Owed(user) <= MaxInflight
    /\ Len(subs) <= MaxOrphans
    /\ GoHome(subs)
    /\ toast' = NoToast
    /\ event' = Event("navigateHome", 0, user, "ok")
    /\ UNCHANGED <<user, width, dbVars, clock>>

\* Navbar.handleCreatePin, behind the Create button of the feed's navbar:
\* navigate('/create').
HandleCreatePin ==
    /\ route = "home"
    /\ LeaveHome("create")
    /\ toast' = NoToast
    /\ event' = Event("createPin", 0, user, "ok")
    /\ UNCHANGED <<user, width, dbVars, clock>>

\* Navbar.handleProfile, behind the Profile item of the navbar's menu:
\* navigate('/profile'). Neither Home nor CreatePin is shown there.
HandleProfile ==
    /\ route = "home"
    /\ LeaveHome("profile")
    /\ toast' = NoToast
    /\ event' = Event("handleProfile", 0, user, "ok")
    /\ UNCHANGED <<user, width, dbVars, clock>>

\* The Settings item of the navbar's menu: navigate('/settings').
HandleSettings ==
    /\ route = "home"
    /\ LeaveHome("settings")
    /\ toast' = NoToast
    /\ event' = Event("handleSettings", 0, user, "ok")
    /\ UNCHANGED <<user, width, dbVars, clock>>

\* Index's effect, once useAuth's loading is false: navigate('/') with a
\* session, navigate('/auth') without one.
IndexRedirect ==
    /\ route = "index"
    /\ toast' = NoToast
    /\ event' = Event("index", 0, user, "ok")
    /\ IF user # NoUser
       THEN GoHome(subs)
       ELSE /\ route' = "auth"
            /\ UNCHANGED <<homeVars, gridVars, flightVars, imageFile, imagePreview,
                           readers, formData, cLoading, subs>>
    /\ UNCHANGED <<user, width, dbVars, clock>>

\* The application opened on Index over public.pins = db, with session u: no
\* screen of the feed or of the creation form is mounted.
IndexInit(db, likes, saves, u, w) ==
    /\ route = "index"
    /\ user = u
    /\ HomeFresh
    /\ effects = {}
    /\ width = w
    /\ dbPins = db /\ dbLikes = likes /\ dbSaves = saves /\ storage = {}
    /\ loads = <<>> /\ ixLoads = <<>> /\ toggles = <<>> /\ deletes = <<>>
    /\ toast = NoToast
    /\ event = Event("mount", 0, u, "ok")
    /\ CreateFresh
    /\ subs = <<>>
    /\ clock = 0

\* The feed with like clicks, left for the creation screen, the profile or the
\* settings while its calls are at an await; public.saves is empty.
Init == \E u \in Sessions : HomeInit(FeedDb, FeedLikes, <<>>, u, FeedWidth)

Next ==
    \/ FlushEffects
    \/ FetchStep
    \/ \E i \in 1..Len(ixLoads), o \in Outcomes : InteractionsResponse(i, o)
    \/ \E id \in DOMAIN cards : ClickToggle(id, "like")
    \/ \E i \in 1..Len(toggles), o \in Outcomes : ToggleDone(i, o)
    \/ HandleCreatePin
    \/ HandleProfile
    \/ HandleSettings

Spec == Init /\ [][Next]_vars

\* The feed with like clicks and the owner's deletes, left for the creation
\* screen while its calls are at an await.
InitDelete == \E u \in Sessions : HomeInit(FeedDb, FeedLikes, FeedSaves, u, FeedWidth)

NextDelete ==
    \/ FlushEffects
    \/ FetchStep
    \/ \E i \in 1..Len(ixLoads), o \in Outcomes : InteractionsResponse(i, o)
    \/ \E id \in DOMAIN cards : ClickToggle(id, "like")
    \/ \E i \in 1..Len(toggles), o \in Outcomes : ToggleDone(i, o)
    \/ \E id \in DOMAIN cards : ClickDelete(id)
    \/ \E i \in 1..Len(deletes), o \in Outcomes : DeleteDone(i, o)
    \/ HandleCreatePin
    \/ HandleProfile
    \/ HandleSettings

SpecDelete == InitDelete /\ [][NextDelete]_vars

\* The feed across session changes, with rows in public.likes and public.saves:
\* the liked-set and saved-set loads. The user goes to the creation screen and
\* back, so the feed mounts again while calls of the feed before it answer.
InitSession == HomeInit(FeedDb, FeedLikes, FeedSaves, "u1", FeedWidth)

NextSession ==
    \/ FlushEffects
    \/ FetchStep
    \/ \E u \in Sessions : SessionChange(u)
    \/ \E i \in 1..Len(ixLoads), o \in Outcomes : InteractionsResponse(i, o)
    \/ HandleCreatePin
    \/ NavigateHome
    \/ HandleProfile
    \/ HandleSettings

SpecSession == InitSession /\ [][NextSession]_vars

\* The feed of a signed-in user with like and save clicks, over one pin the
\* user has liked and not saved; the user goes to the creation screen and
\* back, to the profile or the settings, and the session changes.
ToggleDb == << PinRow(1, "u2", <<"b">>, None, None) >>
ToggleLikes == <<[user_id |-> "u1", pin_id |-> 1]>>

InitToggle == HomeInit(ToggleDb, ToggleLikes, <<>>, "u1", FeedWidth)

NextToggle ==
    \/ FlushEffects
    \/ FetchStep
    \/ \E i \in 1..Len(ixLoads), o \in Outcomes : InteractionsResponse(i, o)
    \/ \E id \in DOMAIN cards, kind \in {"like", "save"} : ClickToggle(id, kind)
    \/ \E i \in 1..Len(toggles), o \in Outcomes : ToggleDone(i, o)
    \/ HandleCreatePin
    \/ NavigateHome
    \/ HandleProfile
    \/ HandleSettings
    \/ \E u \in Sessions : SessionChange(u)

SpecToggle == InitToggle /\ [][NextToggle]_vars

\* The feed of an anonymous viewer: no session, so no call of
\* fetchUserInteractions, handleLike, handleSave or handleDelete is ever at an
\* await, and the steps that resume one have nothing to resume. The viewer
\* searches, resizes the window and goes to the creation screen and back.
InitAnon == HomeInit(FeedDb, FeedLikes, FeedSaves, NoUser, FeedWidth)

NextAnon ==
    \/ FlushEffects
    \/ FetchStep
    \/ \E id \in DOMAIN cards, kind \in {"like", "save"} : ClickToggle(id, kind)
    \/ \E id \in DOMAIN cards : ClickDelete(id)
    \/ \E q \in {<<>>, <<"a">>, <<"B">>} : HandleSearch(q)
    \/ \E w \in Widths : Resize(w)
    \/ HandleCreatePin
    \/ NavigateHome
    \/ HandleProfile
    \/ HandleSettings

SpecAnon == InitAnon /\ [][NextAnon]_vars

\* The feed over every small public.pins, searched and kept on screen: the
\* filter.
InitFilter == \E db \in FilterDbs : HomeInit(db, <<>>, <<>>, NoUser, FeedWidth)

NextFilter ==
    \/ FlushEffects
    \/ FetchStep
    \/ \E q \in Queries : HandleSearch(q)

SpecFilter == InitFilter /\ [][NextFilter]_vars

\* The feed over 0..MaxGridPins pins, resized and kept on screen: the masonry
\* grid.
InitGrid == \E db \in GridDbs, w \in Widths : HomeInit(db, <<>>, <<>>, NoUser, w)

NextGrid ==
    \/ FlushEffects
    \/ FetchStep
    \/ \E w \in Widths : Resize(w)

SpecGrid == InitGrid /\ [][NextGrid]_vars

\* The application opened on "/create": CreatePin after its first commit; Home is
\* not mounted.
InitCreate ==
    /\ route = "create"
    /\ user \in Sessions
    /\ HomeFresh
    /\ effects = {}
    /\ width = FeedWidth
    /\ dbPins = <<>> /\ dbLikes = <<>> /\ dbSaves = <<>> /\ storage = {}
    /\ loads = <<>> /\ ixLoads = <<>> /\ toggles = <<>> /\ deletes = <<>>
    /\ toast = NoToast
    /\ event = Event("mount", 0, user, "ok")
    /\ CreateFresh
    /\ subs = <<>>
    /\ clock = 0

NextCreate ==
    \/ \E file \in Files : HandleImageUpload(file)
    \/ \E i \in 1..Len(readers) : ReaderLoad(i)
    \/ RemoveImage
    \/ \E t \in Titles : SetTitle(t)
    \/ \E d \in Descriptions : SetDescription(d)
    \/ \E t \in TagEdits : SetTags(t)
    \/ Tick
    \/ HandleSubmit
    \/ \E i \in 1..Len(subs), o \in Outcomes : UploadResponse(i, o)
    \/ \E i \in 1..Len(subs), o \in Outcomes : InsertResponse(i, o)
    \/ NavigateHome
    \/ \E u \in Sessions : SessionChange(u)

SpecCreate == InitCreate /\ [][NextCreate]_vars

\* The creation screen once the user has typed a tags field of up to MaxTagLen
\* characters; then an image is chosen, a title and a description are given
\* and the form is submitted.
InitTags ==
    /\ route = "create"
    /\ user \in Users
    /\ HomeFresh
    /\ effects = {}
    /\ width = FeedWidth
    /\ dbPins = <<>> /\ dbLikes = <<>> /\ dbSaves = <<>> /\ storage = {}
    /\ loads = <<>> /\ ixLoads = <<>> /\ toggles = <<>> /\ deletes = <<>>
    /\ toast = NoToast
    /\ event = Event("setTags", 0, user, "ok")
    /\ imageFile = NoFile
    /\ imagePreview = None
    /\ readers = <<>>
    /\ formData \in [title : {<<>>}, description : {<<>>}, tags : TagInputs]
    /\ cLoading = FALSE
    /\ subs = <<>>
    /\ clock = 0

NextTags ==
    \/ \E file \in ValidFiles : HandleImageUpload(file)
    \/ \E t \in Titles : SetTitle(t)
    \/ \E d \in Descriptions : SetDescription(d)
    \/ HandleSubmit
    \/ \E i \in 1..Len(subs), o \in Outcomes : UploadResponse(i, o)
    \/ \E i \in 1..Len(subs), o \in Outcomes : InsertResponse(i, o)

SpecTags == InitTags /\ [][NextTags]_vars

\* Both screens with every awaited gateway request settling and every pending
\* effect running: the application opens on the feed of a signed-in user over
\* an empty public.pins, or on Index with or without a session, and the user
\* moves between the feed, the creation screen, the profile and the settings,
\* choosing an image, giving a title and submitting.
InitUsable ==
    \/ HomeInit(<<>>, <<>>, <<>>, "u1", FeedWidth)
    \/ \E u \in {"u1", NoUser} : IndexInit(<<>>, <<>>, <<>>, u, FeedWidth)

GatewayAnswersFetch == FetchStep
GatewayAnswersInteractions ==
    \E i \in 1..Len(ixLoads), o \in Outcomes : InteractionsResponse(i, o)
GatewayAnswersUpload == \E i \in 1..Len(subs), o \in Outcomes : UploadResponse(i, o)
GatewayAnswersInsert == \E i \in 1..Len(subs), o \in Outcomes : InsertResponse(i, o)

NextUsable ==
    \/ FlushEffects
    \/ GatewayAnswersFetch
    \/ GatewayAnswersInteractions
    \/ GatewayAnswersUpload
    \/ GatewayAnswersInsert
    \/ \E file \in ValidFiles : HandleImageUpload(file)
    \/ \E t \in Titles \ {<<>>} : SetTitle(t)
    \/ HandleSubmit
    \/ NavigateHome
    \/ HandleCreatePin
    \/ HandleProfile
    \/ HandleSettings
    \/ IndexRedirect

\* React runs a pending effect, and an awaited promise settles: each kind of
\* pending request is answered.
SpecUsable ==
    /\ InitUsable
    /\ [][NextUsable]_vars
    /\ WF_vars(FlushEffects)
    /\ WF_vars(GatewayAnswersFetch)
    /\ WF_vars(GatewayAnswersInteractions)
    /\ WF_vars(GatewayAnswersUpload)
    /\ WF_vars(GatewayAnswersInsert)

(***************************************************************************)
(* Properties.                                                             *)
(***************************************************************************)
\* Whether the lower-cased query occurs in the lower-cased text.
OccursIn(text, q) ==
    \E i \in 1..(Len(text) - Len(q) + 1) :
        SubSeq(ToLowerCase(text), i, i + Len(q) - 1) = ToLowerCase(q)

Retained(P, Q) ==
    \/ Q = <<>>
    \/ OccursIn(P.title, Q)
    \/ P.description # None /\ OccursIn(P.description[1], Q)
    \/ P.tags # None /\ \E t \in 1..Len(P.tags[1]) : OccursIn(P.tags[1][t], Q)
    \/ P.profiles # None /\ OccursIn(P.profiles[1].username[1], Q)
    \/ P.profiles # None /\ P.profiles[1].display_name # None
           /\ OccursIn(P.profiles[1].display_name[1], Q)

PositionIn(ps, id) == CHOOSE k \in 1..Len(ps) : ps[k].id = id

\* The filtered list fl holds exactly the pins of ps retained for query q, in
\* the order of ps.
FilteredFrom(fl, ps, q) ==
    /\ \A k \in 1..Len(ps) :
           (\E j \in 1..Len(fl) : fl[j] = ps[k]) <=> Retained(ps[k], q)
    /\ \A j \in 1..Len(fl) : fl[j].id \in RowIds(ps)
    /\ \A a, b \in 1..Len(fl) :
           a < b => PositionIn(ps, fl[a].id) < PositionIn(ps, fl[b].id)

\* C1: once the filter effect has run on the pin list and the query, a pin of
\* the pin list is in the filtered list iff the query is empty or the
\* lower-cased query is a substring of its lower-cased title, description, some
\* tag, author username or author display name, and the filtered list keeps the
\* pin-list order; the filtered list changes only by such a run, over the pin
\* list and the query of the commit before it.
C1_FilterRetainsMatches ==
    /\ []("filter" \notin effects => FilteredFrom(filteredPins, pins, searchQuery))
    /\ [][filteredPins' # filteredPins
             => "filter" \in effects /\ FilteredFrom(filteredPins', pins, searchQuery)]_vars

\* The filter has run after a search: it keeps the second of two loaded pins and
\* drops the first.
C1_Witness ==
    /\ event.type = "effects"
    /\ "filter" \notin effects
    /\ searchQuery # <<>>
    /\ Len(pins) = 2
    /\ Len(filteredPins) = 1
    /\ filteredPins[1] = pins[2]
    /\ ~Retained(pins[1], searchQuery)

\* C3: distributeColumns returns exactly C sequences, C in {2,3,4,5}; the pin at
\* input index i is in column (i mod C) and in no other; every pin appears
\* exactly once; pins within a column are in input order.
C3_RoundRobin ==
    gridMounted =>
        LET C == columns
            N == Len(filteredPins)
        IN /\ C \in {2, 3, 4, 5}
           /\ Len(columnData) = C
           /\ \A i \in 0..(N - 1), c \in 0..(C - 1) :
                  (\E k \in 1..Len(columnData[c + 1]) :
                       columnData[c + 1][k] = filteredPins[i + 1]) <=> (c = i % C)
           /\ SeqSum([c \in 1..C |-> Len(columnData[c])]) = N
           /\ \A c \in 1..C : \A k \in 1..Len(columnData[c]) :
                  columnData[c][k] = filteredPins[(k - 1) * C + c]

\* Six pins over five columns: the sixth wraps to the first column.
C3_Witness ==
    /\ gridMounted
    /\ columns = 5
    /\ Len(filteredPins) = 6
    /\ Len(columnData[1]) = 2
    /\ columnData[1][2] = filteredPins[6]

\* The column count c is the one the four breakpoints give for width w.
AtBreakpoints(c, w) ==
    /\ w < 640 => c = 2
    /\ 640 <= w /\ w < 1024 => c = 3
    /\ 1024 <= w /\ w < 1280 => c = 4
    /\ w >= 1280 => c = 5

\* C4: once the grid's mount effect has computed the column count, and after
\* every resize from then on, the column count is 2 below 640, 3 below 1024, 4
\* below 1280 and 5 from 1280 on, whatever it was before; the count of a mounted
\* grid changes only by the mount computation or a resize.
C4_ColumnsFromWidth ==
    /\ [](gridMounted /\ "grid" \notin effects => AtBreakpoints(columns, width))
    /\ [][gridMounted /\ gridMounted' /\ columns' # columns
             => /\ event'.type = "resize" \/ "grid" \in effects
                /\ AtBreakpoints(columns', width')]_vars

\* A resize to the 640 breakpoint.
C4_Witness ==
    /\ gridMounted
    /\ "grid" \notin effects
    /\ event.type = "resize"
    /\ width = 640
    /\ columns = 3

\* C2: the likes relation never holds more than one row for a (user, pin) pair,
\* and right after a successful like-insert the pair's row is present, right
\* after a successful like-delete it is absent: the persisted state is that of
\* the operation performed last.
C2_LikeRowFollowsLastOperation ==
    /\ \A u \in Users, p \in RowIds(FeedDb) : RowCount(dbLikes, u, p) <= 1
    /\ event.type = "likeDone" /\ event.outcome = "inserted"
           => RowCount(dbLikes, event.uid, event.pin) = 1
    /\ event.type = "likeDone" /\ event.outcome = "deleted"
           => RowCount(dbLikes, event.uid, event.pin) = 0

\* Pin 2 starts liked by u1, so an insert that succeeds on it follows a
\* successful delete: a delete followed by an insert.
C2_Witness ==
    /\ event = Event("likeDone", 2, "u1", "inserted")
    /\ RowCount(dbLikes, "u1", 2) = 1

\* C8: with no session the feed loads the pins and, once the filter effect has
\* run, renders a card for each of them; no liked-set or saved-set request is
\* issued, and a like or save click issues no insert or delete and changes
\* neither the cards' flags nor the liked and saved sets.
C8_AnonymousViewerInert ==
    /\ user = NoUser
    /\ ixLoads = <<>>
    /\ toggles = <<>>
    /\ deletes = <<>>
    /\ dbLikes = FeedLikes /\ dbSaves = FeedSaves /\ dbPins = FeedDb
    /\ likedPins = {} /\ savedPins = {}
    /\ \A id \in DOMAIN cards : ~cards[id].isLiked /\ ~cards[id].isSaved
    /\ event.outcome = "loaded" /\ event.live =>
           /\ ~loading
           /\ [k \in 1..Len(pins) |-> pins[k].id] = [k \in 1..Len(dbPins) |-> Reverse(dbPins)[k].id]
    /\ route = "home" /\ ~loading => DOMAIN cards = RowIds(filteredPins)
    /\ "filter" \notin effects /\ searchQuery = <<>> => filteredPins = pins

\* An anonymous save click on a rendered card.
C8_Witness ==
    /\ user = NoUser
    /\ event = Event("save", 1, NoUser, "ignored")
    /\ DOMAIN cards = {1, 2}
    /\ Len(pins) = 2

\* C9: if the gateway delete request fails or is rejected, the pin stays in the
\* in-memory pin list and no "Pin deleted" notification is shown.
C9_FailedDeleteKeepsPin ==
    [][event'.type = "deleteDone" /\ event'.outcome # "ok"
           => pins' = pins /\ toast'.title # "Pin deleted"]_vars

\* C10: after a failed pin-list request of the feed on screen the load-failure
\* notification is shown and the pin list and the filtered list are empty, also
\* when the request is a re-fetch after a session change.
C10_FailedLoadLeavesFeedEmpty ==
    event.type = "pinsList" /\ event.outcome = "failed" /\ event.live
        => /\ toast = Toast("Error", "Failed to load pins")
           /\ pins = <<>>
           /\ filteredPins = <<>>

\* The comma-free pieces of a tags field, by position: piece k lies between the
\* (k-1)th and the kth comma.
CommaAt(t) == {i \in 1..Len(t) : t[i] = ","}
Cut(t, k) ==
    IF k = 0 THEN 0
    ELSE IF k > Cardinality(CommaAt(t)) THEN Len(t) + 1
    ELSE CHOOSE i \in CommaAt(t) : Cardinality({j \in CommaAt(t) : j < i}) = k - 1
Piece(t, k) == SubSeq(t, Cut(t, k - 1) + 1, Cut(t, k) - 1)
\* A piece without its leading and trailing spaces.
Stripped(s) ==
    LET inked == {i \in 1..Len(s) : s[i] # " "} IN
    IF inked = {} THEN <<>>
    ELSE SubSeq(s, CHOOSE i \in inked : \A j \in inked : i <= j,
                   CHOOSE i \in inked : \A j \in inked : i >= j)
\* The pieces that are not blank, in order, stripped.
ExpectedTags(t) ==
    LET n == Cardinality(CommaAt(t)) + 1
        kept == {k \in 1..n : Stripped(Piece(t, k)) # <<>>}
    IN [m \in 1..Cardinality(kept) |->
           Stripped(Piece(t, CHOOSE k \in kept : Cardinality({j \in kept : j < k}) = m - 1))]

\* C5: a submission by a signed-in user, with a valid image and a non-empty
\* title, whose upload and insert both succeed adds exactly one pin record; its
\* image reference is the public URL of the object this submission uploaded and
\* its tags are the tags field split on commas, trimmed, empty pieces dropped,
\* in input order ("f,,f" gives ["f","f"]).
C5_SubmissionCreatesOnePin ==
    [][event'.type = "insertDone" /\ event'.outcome = "ok" =>
          LET sub == subs[1]
              row == dbPins'[Len(dbPins')]
          IN /\ Len(subs) = 1 /\ subs' = <<>>
             /\ Len(dbPins') = Len(dbPins) + 1
             /\ SubSeq(dbPins', 1, Len(dbPins)) = dbPins
             /\ sub.uid # NoUser /\ row.user_id = sub.uid
             /\ sub.file.size <= MaxFileSize /\ StartsWith(sub.file.type, ImagePrefix)
             /\ sub.form.title # <<>> /\ row.title = sub.form.title
             /\ row.image_url = PublicUrl(sub.fileName)
             /\ [path |-> sub.fileName, file |-> sub.file] \in storage'
             /\ row.tags = Some(ExpectedTags(sub.form.tags))
             /\ sub.form.tags = <<"f", ",", ",", "f">> => row.tags = Some(<< <<"f">>, <<"f">> >>)
             /\ sub.form.tags = <<" ", ",", "f", " ">> => row.tags = Some(<< <<"f">> >>)]_vars

\* The pin created from a tags field of two tags, with a description.
C5_Witness ==
    /\ event.type = "insertDone" /\ event.outcome = "ok" /\ event.live
    /\ route = "home"
    /\ Len(dbPins) = 1
    /\ dbPins[1].title = <<"f">>
    /\ dbPins[1].description # None
    /\ dbPins[1].tags = Some(<< <<"f">>, <<"f">> >>)
    /\ dbPins[1].image_url \in {PublicUrl(path) : path \in StoredPaths}

\* The object a submission uploaded is in the bucket.
UploadedIn(sub, bucket) == [path |-> sub.fileName, file |-> sub.file] \in bucket

\* C6: the insert request is issued only by the step in which the upload
\* succeeded, after the public URL and the tags; a failed upload ends the
\* submission with no insert; after any failed step there is no navigation (a
\* submission whose screen is still shown stays on the creation screen), the
\* error message is shown, and the form fields and the selected image keep
\* their values; a failed insert leaves the uploaded object in storage.
C6_SubmissionOrderAndFailure ==
    [][/\ (\E i \in 1..Len(subs') : subs'[i].stage = "insert")
              /\ ~(\E i \in 1..Len(subs) : subs[i].stage = "insert")
           => /\ event'.type = "uploadDone" /\ event'.outcome = "ok"
              /\ UploadedIn(subs'[1], storage')
              /\ subs'[1].tags = ExpectedTags(subs[1].form.tags)
       /\ dbPins' # dbPins
           => /\ event'.type = "insertDone"
              /\ subs[1].stage = "insert"
              /\ UploadedIn(subs[1], storage)
       /\ event'.type \in {"uploadDone", "insertDone"} /\ event'.outcome # "ok"
           => /\ subs' = <<>>
              /\ dbPins' = dbPins
              /\ storage' = storage
              /\ route' = route
              /\ subs[1].live => route = "create"
              /\ toast' = Toast("Error creating pin",
                                ErrorMessage(subs[1].stage, event'.outcome))
              /\ formData' = formData
              /\ imageFile' = imageFile
              /\ imagePreview' = imagePreview
              /\ ~cLoading'
              /\ event'.type = "insertDone" => UploadedIn(subs[1], storage')]_vars

\* A failed insert: the upload of this submission stays in the bucket, the form
\* and the image are still there.
C6_Witness ==
    /\ event.type = "insertDone" /\ event.outcome = "error" /\ event.live
    /\ storage # {}
    /\ dbPins = <<>>
    /\ route = "create"
    /\ imageFile # NoFile
    /\ formData.title # <<>>
    /\ toast = Toast("Error creating pin", "insert rejected")

\* C7 as stated: after a file over 10 MiB or of a non-image type is chosen, a
\* notification is shown, no gateway call is made and no image file is held as
\* selected.
C7_RejectedFileClearsSelection ==
    event.type = "selectImage" /\ event.outcome \in {"tooLarge", "notImage"}
        => /\ toast.title \in {"File too large", "Invalid file type"}
           /\ subs = <<>>
           /\ imageFile = NoFile

\* C7, amended: a file over 10 MiB or of a non-image type is refused with a
\* notification before any gateway call, and it does not become the selection:
\* the selected image and the preview stay as they were, so no image is held
\* only if none was held before.
C7_RejectedFileNotSelected ==
    [][event'.type = "selectImage" /\ event'.outcome \in {"tooLarge", "notImage"}
          => /\ LET file == event'.file[1] IN
                  /\ file.size > MaxFileSize \/ ~StartsWith(file.type, ImagePrefix)
                  /\ file.size > MaxFileSize <=> toast'.title = "File too large"
                  /\ file.size <= MaxFileSize <=> toast'.title = "Invalid file type"
                  /\ imageFile' # Some(file)
             /\ imageFile' = imageFile
             /\ imagePreview' = imagePreview
             /\ readers' = readers
             /\ subs' = subs /\ storage' = storage /\ dbPins' = dbPins]_vars

\* An 11 MiB file is refused while an image chosen before is still selected.
C7_Witness ==
    /\ event.type = "selectImage" /\ event.outcome = "tooLarge"
    /\ event.file[1].size = 11 * 1024 * 1024
    /\ toast.title = "File too large"
    /\ imageFile # NoFile
\* C11: the profile lookups of a load are all out at once and answer in any
\* order; when the last one answers, the pin list has the pins of the pin-list
\* response in its order, each with the result of the lookup of its own owner;
\* a lookup that finds no profile or answers with an error does not fail the
\* load and leaves the pin without author info.
C11_LookupsKeepOrder ==
    [][/\ event'.type = "profile" /\ event'.outcome = "loaded"
           => \E i \in 1..Len(loads) :
                  LET data == loads[i].data IN
                  /\ loads[i].stage = "profiles"
                  /\ loads' = RemoveAt(loads, i)
                  /\ data = Reverse(dbPins)
                  /\ Len(pins') = Len(data)
                  /\ \A j \in 1..Len(data) :
                         /\ pins'[j] = WithProfile(data[j], pins'[j].profiles)
                         /\ pins'[j].profiles \in {None, ProfileTable(data[j].user_id)}
                         /\ IsSome(loads[i].prof[j])
                                => pins'[j].profiles = Get(loads[i].prof[j])
                         /\ ~IsSome(loads[i].prof[j]) => data[j].id = event'.pin
       /\ event'.type = "profile"
              /\ (\E i \in 1..Len(loads), k \in 1..MaxListLen + 1 :
                      ProfileResponse(i, k, "ok") \/ ProfileResponse(i, k, "error"))
           => /\ event'.outcome # "failed"
              /\ toast' = NoToast
       /\ event'.type = "profile" /\ event'.outcome = "loaded"
              /\ (\E i \in 1..Len(loads), k \in 1..MaxListLen + 1 : ProfileResponse(i, k, "error"))
           => \E j \in 1..Len(pins') : pins'[j].id = event'.pin /\ pins'[j].profiles = None]_vars

\* A load of two pins of owners with different profiles: the lookup of the
\* second pin answered first, with an error, and the lookup of the first pin
\* answered last; each pin has its own owner's result.
C11_Witness ==
    /\ event.type = "profile" /\ event.outcome = "loaded"
    /\ Len(pins) = 2
    /\ event.pin = pins[1].id
    /\ pins[1].user_id = "u1" /\ pins[1].profiles = ProfileTable("u1")
    /\ pins[2].user_id = "u3" /\ pins[2].profiles = None

\* fetchUserInteractions' catch: console.error runs for a rejected request only;
\* a request that resolves with an error result passes if (likes) / if (saves)
\* without a log.
InteractionsErrorLogged ==
    event.type \in {"likes", "saves"} /\ event.outcome = "throw"

\* C12: a failed liked-set (saved-set) request of a signed-in user is logged,
\* shows no notification and leaves the liked set (saved set) empty, also when
\* the request is a re-fetch after a session change.
C12_FailedInteractionsLeaveSetEmpty ==
    /\ event.type = "likes" /\ event.outcome # "ok" /\ event.live
           => InteractionsErrorLogged /\ toast = NoToast /\ likedPins = {}
    /\ event.type = "saves" /\ event.outcome # "ok" /\ event.live
           => InteractionsErrorLogged /\ toast = NoToast /\ savedPins = {}

\* The owner public.pins records for a pin of the feed.
OwnerOf(id) == (CHOOSE row \in {FeedDb[k] : k \in 1..Len(FeedDb)} : row.id = id).user_id

\* C13: a delete request is issued from a card only when the rendering user
\* owns the pin. For a signed-out user or another user the delete item is not
\* offered, and the handler, invoked all the same, issues no request and does
\* not call the removal callback; every request in flight is its pin's owner's.
C13_DeleteOnlyByOwner ==
    [][/\ event'.type = "delete"
           => IF user # NoUser /\ user = OwnerOf(event'.pin)
              THEN /\ DeleteOffered(event'.pin)
                   /\ deletes' = Append(deletes, [pin |-> event'.pin, uid |-> user,
                                                       live |-> TRUE])
              ELSE /\ ~DeleteOffered(event'.pin)
                   /\ deletes' = deletes
                   /\ pins' = pins /\ filteredPins' = filteredPins
                   /\ dbPins' = dbPins
                   /\ toast' = NoToast
       /\ \A i \in 1..Len(deletes') :
              deletes'[i].uid # NoUser /\ deletes'[i].uid = OwnerOf(deletes'[i].pin)
       /\ dbPins' # dbPins \/ (route' = route /\ Len(pins') < Len(pins))
           => event'.type = "deleteDone" /\ event'.uid = OwnerOf(event'.pin)]_vars

\* A signed-in user who does not own pin 2 has its delete handler invoked.
C13_Witness ==
    /\ event = Event("delete", 2, "u1", "ignored")
    /\ 2 \in DOMAIN cards
    /\ OwnerOf(2) # "u1"
    /\ deletes = <<>>
\* C14: while the feed is shown its loading flag becomes false whatever the
\* pin-list request and the profile lookups return, and once false it stays
\* false as long as that feed is shown; on the creation screen the loading flag
\* returns to false after every submission, successful or failed; a failed
\* submission navigates nowhere and leaves the image and the form as they are,
\* and with the flag false the Publish button is enabled whenever an image and
\* a title are there.
C14_ScreensStayUsable ==
    /\ [](route = "home" => <>(~loading \/ route # "home"))
    /\ [][route = "home" /\ ~loading /\ route' = "home" => ~loading']_vars
    /\ [](cLoading => <>(~cLoading))
    /\ [][cLoading /\ ~cLoading'
            => event'.type \in {"uploadDone", "insertDone", "navigateHome"}]_vars
    /\ [][event'.type \in {"uploadDone", "insertDone"} /\ event'.outcome # "ok"
            => /\ route' = route
               /\ imageFile' = imageFile /\ formData' = formData
               /\ ~cLoading' \/ (\E i \in 1..Len(subs') : subs'[i].live)]_vars
    /\ [](route = "create" /\ ~cLoading /\ imageFile # NoFile /\ formData.title # <<>>
              => ENABLED HandleSubmit)

\* The feed reached from a successful submission, its load failed and the
\* loading flag false.
C14_Witness ==
    /\ route = "home"
    /\ Len(dbPins) = 1
    /\ dbPins[1].image_url \in {PublicUrl(path) : path \in StoredPaths}
    /\ event.outcome = "failed" /\ event.live
    /\ ~loading
    /\ ~cLoading
\* The (user, pin) row a request is about.
PairRow(uid, pid) == [user_id |-> uid, pin_id |-> pid]

\* C15: a like (save) click by a signed-in user issues exactly one request
\* against likes (saves): the delete of the (user, pin) row if the card's local
\* flag is set at the click, the insert of that row otherwise. When the gateway
\* answers, a delete request removes the pair's rows and adds none, an insert
\* request adds at most the pair's row and removes none, and the other relation
\* is untouched.
C15_OneRequestPerClick ==
    [][/\ event'.type \in {"like", "save"} /\ user # NoUser
           => LET flag == IF event'.type = "like" THEN cards[event'.pin].isLiked
                          ELSE cards[event'.pin].isSaved
              IN /\ Len(toggles') = Len(toggles) + 1
                 /\ SubSeq(toggles', 1, Len(toggles)) = toggles
                 /\ toggles'[Len(toggles')].kind = event'.type
                 /\ toggles'[Len(toggles')].pin = event'.pin
                 /\ toggles'[Len(toggles')].uid = user
                 /\ toggles'[Len(toggles')].was = flag
                 /\ dbLikes' = dbLikes /\ dbSaves' = dbSaves
       /\ event'.type \in {"likeDone", "saveDone"}
           => \E i \in 1..Len(toggles) :
                  LET t == toggles[i]
                      isLike == event'.type = "likeDone"
                      table == IF isLike THEN dbLikes ELSE dbSaves
                      after == IF isLike THEN dbLikes' ELSE dbSaves'
                      other == IF isLike THEN dbSaves' = dbSaves ELSE dbLikes' = dbLikes
                  IN /\ toggles' = RemoveAt(toggles, i)
                     /\ t.kind = (IF isLike THEN "like" ELSE "save")
                     /\ t.pin = event'.pin /\ t.uid = event'.uid
                     /\ other
                     /\ event'.outcome = "deleted" <=> (t.was /\ event'.outcome \notin {"error", "throw"})
                     /\ event'.outcome = "inserted" <=> (~t.was /\ event'.outcome \notin {"error", "throw"})
                     /\ event'.outcome = "deleted"
                            => /\ RowCount(after, t.uid, t.pin) = 0
                               /\ Len(after) = Len(table) - RowCount(table, t.uid, t.pin)
                     /\ event'.outcome = "inserted"
                            => after = Append(table, PairRow(t.uid, t.pin))
                     /\ event'.outcome \in {"error", "throw"} => after = table
       /\ dbLikes' # dbLikes => event'.type = "likeDone"
       /\ dbSaves' # dbSaves => event'.type = "saveDone"]_vars

\* A save click on the card of pin 1 whose saved flag an earlier save click
\* set: the request in flight is the delete of the row of (u1, pin 1) in saves.
C15_Witness ==
    /\ event = Event("save", 1, "u1", "requested")
    /\ cards[1].isSaved
    /\ Len(toggles) = 1
    /\ toggles[1].kind = "save" /\ toggles[1].was
\* C16 as stated: for a click whose request is rejected or fails while its
\* card is on screen, the card's flag ends at the negation of its value at the
\* click and the feed callback has put that negated value in the feed's set.
C16_FailedToggleStillFlips ==
    [][event'.type \in {"likeDone", "saveDone"} /\ event'.outcome \in {"error", "throw"}
           /\ event'.live
           => \E i \in 1..Len(toggles) :
                  LET t == toggles[i] IN
                  /\ toggles' = RemoveAt(toggles, i)
                  /\ IF event'.type = "likeDone"
                     THEN /\ cards'[t.pin].isLiked = ~t.was
                          /\ t.pin \in likedPins' <=> ~t.was
                     ELSE /\ cards'[t.pin].isSaved = ~t.was
                          /\ t.pin \in savedPins' <=> ~t.was]_vars

\* C16, amended: when the request resolves, also with an error result, the
\* flag of the clicked card ends at the negation of its value at the click, the
\* feed callback puts that negated value in the set of the feed still on
\* screen, and no notification is shown; when the request's promise is rejected, the flags
\* and the feed's sets stay as they are and an error notification is shown. A
\* card's flag changes in no other step, so nothing restores the prior value.
C16_ToggleFollowsResolution ==
    [][/\ event'.type \in {"likeDone", "saveDone"}
           => \E i \in 1..Len(toggles) :
                  LET t == toggles[i]
                      isLike == event'.type = "likeDone"
                  IN /\ toggles' = RemoveAt(toggles, i)
                     /\ t.pin = event'.pin
                     /\ IF event'.outcome = "throw"
                        THEN /\ cards' = cards
                             /\ likedPins' = likedPins /\ savedPins' = savedPins
                             /\ toast'.title = "Error"
                        ELSE /\ toast' = NoToast
                             /\ t.live /\ isLike => cards'[t.pin].isLiked = ~t.was
                             /\ t.live /\ ~isLike => cards'[t.pin].isSaved = ~t.was
                             /\ isLike => /\ t.home => (t.pin \in likedPins' <=> ~t.was)
                                          /\ savedPins' = savedPins
                             /\ ~isLike => /\ t.home => (t.pin \in savedPins' <=> ~t.was)
                                           /\ likedPins' = likedPins
                             /\ ~t.home => likedPins' = likedPins /\ savedPins' = savedPins
       /\ \A id \in DOMAIN cards \cap DOMAIN cards' :
              /\ cards'[id].isLiked # cards[id].isLiked
                     => event' \in {Event("likeDone", id, u, o) :
                                        u \in Users, o \in {"error", "inserted", "deleted"}}
              /\ cards'[id].isSaved # cards[id].isSaved
                     => event' \in {Event("saveDone", id, u, o) :
                                        u \in Users, o \in {"error", "inserted", "deleted"}}]_vars

\* The delete of a like answered with an error result: the row is still in
\* likes, the card's flag and the feed's set say "not liked".
C16_Witness ==
    /\ event = Event("likeDone", 1, "u1", "error")
    /\ HasRow(dbLikes, "u1", 1)
    /\ 1 \in DOMAIN cards /\ ~cards[1].isLiked
    /\ 1 \notin likedPins
    /\ toast = NoToast
\* C17: for a signed-in user, once the pin-list load and the liked/saved-set
\* load have completed, no effect is pending and no toggle request is in
\* flight, every rendered card's liked flag equals membership of its pin in the
\* feed's liked set, and its saved flag membership in the feed's saved set.
C17_CardFlagsMatchFeedSets ==
    user # NoUser /\ loads = <<>> /\ ixLoads = <<>> /\ toggles = <<>> /\ effects = {}
        => \A id \in DOMAIN cards :
               /\ cards[id].isLiked <=> id \in likedPins
               /\ cards[id].isSaved <=> id \in savedPins
====
